---- MODULE Spec2Model ----
(***************************************************************************)
(* Schema layer of SimpleMicroservices: the pydantic models of             *)
(* models/assignment.py and models/coursework.py (Base / Create / Update / *)
(* Read variants), their validation and defaulting rules, their JSON       *)
(* serialisation, and the partial-update step that consumes an Update.     *)
(*                                                                         *)
(* Conventions of the model                                                *)
(*   - an input document is a record whose DOMAIN is the set of keys the   *)
(*     caller supplied; a supplied value v is <<v>>, JSON null is <<>>;    *)
(*   - an Optional[...] field of an instance holds <<>> (None) or <<v>>;   *)
(*   - free text (title, semester, ...) is an atomic string; text with a   *)
(*     syntax (dates, timestamps, UUIDs, e-mail) is a sequence of          *)
(*     one-character strings so that parsing and formatting are computed;  *)
(*   - a list field of an instance holds the address of a list object in   *)
(*     heap, as a Python attribute holds a reference to a list.            *)
(***************************************************************************)
EXTENDS Integers, Sequences, FiniteSets, TLC

\* ------------------------------------------------------------------ bounds
MaxPeople == 2
MaxUuid == 3
MaxClock == 1
MaxObjs == 3

\* ------------------------------------------------------- option / documents
None == <<>>
Some(v) == <<v>>
Has(doc, f) == f \in DOMAIN doc
NonNull(doc, f) == Has(doc, f) /\ doc[f] # None
Val(doc, f) == doc[f][1]
\* the value of a key, undef when the document has none (such a document fails
\* validation, and the instance built from it is never produced)
Get(doc, f, undef) == IF NonNull(doc, f) THEN Val(doc, f) ELSE undef
Undefined == "PydanticUndefined"
Min(S) == CHOOSE x \in S : \A y \in S : x <= y

\* ------------------------------------------------------------- wire formats
HexChars == <<"0", "1", "2", "3", "4", "5", "6", "7", "8", "9", "a", "b", "c", "d", "e", "f">>
IsDigit(c) == \E d \in 0..9 : HexChars[d + 1] = c
Digit(c) == CHOOSE d \in 0..9 : HexChars[d + 1] = c
IsHex(c) == \E d \in 0..15 : HexChars[d + 1] = c
Hex(c) == CHOOSE d \in 0..15 : HexChars[d + 1] = c
Ch(n) == HexChars[n + 1]
Pad2(n) == <<Ch((n \div 10) % 10), Ch(n % 10)>>
Pad4(n) == <<Ch((n \div 1000) % 10), Ch((n \div 100) % 10)>> \o Pad2(n % 100)
Num(s) == IF Len(s) = 2 THEN 10 * Digit(s[1]) + Digit(s[2])
          ELSE 1000 * Digit(s[1]) + 100 * Digit(s[2]) + 10 * Digit(s[3]) + Digit(s[4])
AllDigits(s) == \A i \in 1..Len(s) : IsDigit(s[i])

\* uuid.UUID: the value is a number (two hex digits here instead of 32)
UUIDStr(u) == <<Ch((u \div 16) % 16), Ch(u % 16)>>
IsUUIDStr(s) == Len(s) = 2 /\ IsHex(s[1]) /\ IsHex(s[2])
ParseUUID(s) == 16 * Hex(s[1]) + Hex(s[2])
\* uuid4(): the n-th call of the process returns a value no earlier call returned
uuid4(n) == (16 + n) % 256

\* datetime.date
IsLeap(y) == (y % 4 = 0 /\ y % 100 # 0) \/ y % 400 = 0
DaysIn(y, m) == IF m = 2 THEN (IF IsLeap(y) THEN 29 ELSE 28)
                ELSE IF m \in {4, 6, 9, 11} THEN 30 ELSE 31
\* (mutation) the day written before the month
DateStrDayFirst(d) == Pad4(d.year) \o <<"-">> \o Pad2(d.day) \o <<"-">> \o Pad2(d.month)
DateStr(d) == Pad4(d.year) \o <<"-">> \o Pad2(d.month) \o <<"-">> \o Pad2(d.day)
IsDateStr(s) ==
    /\ Len(s) = 10
    /\ s[5] = "-" /\ s[8] = "-"
    /\ AllDigits(SubSeq(s, 1, 4)) /\ AllDigits(SubSeq(s, 6, 7)) /\ AllDigits(SubSeq(s, 9, 10))
    /\ Num(SubSeq(s, 1, 4)) >= 1
    /\ Num(SubSeq(s, 6, 7)) \in 1..12
    /\ Num(SubSeq(s, 9, 10)) \in 1..DaysIn(Num(SubSeq(s, 1, 4)), Num(SubSeq(s, 6, 7)))
ParseDate(s) == [year |-> Num(SubSeq(s, 1, 4)), month |-> Num(SubSeq(s, 6, 7)),
                 day |-> Num(SubSeq(s, 9, 10))]

\* datetime.datetime: tzinfo is "None" for a naive value, "UTC" for an aware one
TimeStr(t) == Pad2(t.hour) \o <<":">> \o Pad2(t.minute) \o <<":">> \o Pad2(t.second)
IsTimeStr(s) ==
    /\ Len(s) = 8
    /\ s[3] = ":" /\ s[6] = ":"
    /\ AllDigits(SubSeq(s, 1, 2)) /\ AllDigits(SubSeq(s, 4, 5)) /\ AllDigits(SubSeq(s, 7, 8))
    /\ Num(SubSeq(s, 1, 2)) \in 0..23
    /\ Num(SubSeq(s, 4, 5)) \in 0..59
    /\ Num(SubSeq(s, 7, 8)) \in 0..59
IsDatetimeStr(s) ==
    /\ Len(s) \in {19, 20}
    /\ IsDateStr(SubSeq(s, 1, 10))
    /\ s[11] = "T"
    /\ IsTimeStr(SubSeq(s, 12, 19))
    /\ (Len(s) = 20 => s[20] = "Z")
ParseDatetime(s) ==
    [date |-> ParseDate(SubSeq(s, 1, 10)),
     hour |-> Num(SubSeq(s, 12, 13)), minute |-> Num(SubSeq(s, 15, 16)),
     second |-> Num(SubSeq(s, 18, 19)),
     tzinfo |-> IF Len(s) = 20 THEN "UTC" ELSE "None"]
\* serialisation of a datetime field: ISO-8601, the designator only for an aware value
DatetimeStr(t) ==
    DateStr(t.date) \o <<"T">> \o TimeStr(t) \o (IF t.tzinfo = "UTC" THEN <<"Z">> ELSE <<>>)
\* datetime.utcnow(): the current UTC wall clock as a naive datetime
\* (sub-second digits are left out; c is the reading of the clock)
utcnow(c) ==
    [date |-> [year |-> 2025, month |-> 1, day |-> 15],
     hour |-> 10, minute |-> 20, second |-> 30 + c, tzinfo |-> "None"]

\* -------------------------------------------------------------- validation
\* Errors of one field of a document: a required field that is absent, a null
\* where the annotation is not Optional, or the errors sub of the value, each
\* prefixed by the field's name (pydantic reports the path of every error).
FieldErrs(doc, f, required, optional, sub) ==
    IF ~Has(doc, f) THEN (IF required THEN {<<f>>} ELSE {})
    ELSE IF doc[f] = None THEN (IF optional THEN {} ELSE {<<f>>})
    ELSE {<<f>> \o e : e \in sub}
Scalar(ok) == IF ok THEN {} ELSE {<<>>}
\* the value of an Optional field whose default is None
OptValue(doc, f, v) == IF NonNull(doc, f) THEN Some(v) ELSE None

\* PersonBase (models/person.py): uni and email are required, uni is not
\* empty, email is a well-formed address, addresses defaults to the empty list
IsEmail(s) ==
    /\ Cardinality({i \in 1..Len(s) : s[i] = "@"}) = 1
    /\ s[1] # "@" /\ s[Len(s)] # "@"
PersonBaseErrs(doc) ==
    FieldErrs(doc, "uni", TRUE, FALSE,
              IF NonNull(doc, "uni") THEN Scalar(Val(doc, "uni") # "") ELSE {})
    \cup FieldErrs(doc, "first_name", FALSE, TRUE, {})
    \cup FieldErrs(doc, "last_name", FALSE, TRUE, {})
    \cup FieldErrs(doc, "email", TRUE, FALSE,
                   IF NonNull(doc, "email") THEN Scalar(IsEmail(Val(doc, "email"))) ELSE {})
PersonBaseValue(doc) ==
    [uni |-> Get(doc, "uni", Undefined),
     first_name |-> OptValue(doc, "first_name", Val(doc, "first_name")),
     last_name |-> OptValue(doc, "last_name", Val(doc, "last_name")),
     email |-> Get(doc, "email", <<>>),
     addresses |-> <<>>]

\* List[PersonBase]: every entry is validated; one bad entry fails the list
\* (mutation) only the first entry of the list is validated
PeopleErrsFirstOnly(l) ==
    UNION {{<<Ch(i - 1)>> \o e : e \in PersonBaseErrs(l[i])} : i \in 1..Min({1, Len(l)})}
PeopleErrs(l) ==
    UNION {{<<Ch(i - 1)>> \o e : e \in PersonBaseErrs(l[i])} : i \in 1..Len(l)}
PeopleValue(l) == [i \in 1..Len(l) |-> PersonBaseValue(l[i])]

\* class CourseworkBase(BaseModel); n is the number of uuid4() calls made so
\* far, r the address of the list object the instance's people will refer to
CourseworkBaseErrs(doc) ==
    FieldErrs(doc, "id", FALSE, FALSE,
              IF NonNull(doc, "id") THEN Scalar(IsUUIDStr(Val(doc, "id"))) ELSE {})
    \cup FieldErrs(doc, "title", TRUE, FALSE, {})
    \cup FieldErrs(doc, "semester", TRUE, FALSE, {})
    \cup FieldErrs(doc, "professor", TRUE, FALSE,
                   IF NonNull(doc, "professor") THEN PersonBaseErrs(Val(doc, "professor")) ELSE {})
    \cup FieldErrs(doc, "people", FALSE, FALSE,
                   IF NonNull(doc, "people") THEN PeopleErrs(Val(doc, "people")) ELSE {})
\* default_factory=list: every construction calls list() and gets a new object
\* (mutation) default=[]: one list object, at address 0, shared by every
\* instance built without people
CourseworkPeopleRefShared(doc, r) == IF Has(doc, "people") THEN r ELSE 0
CourseworkPeopleRef(doc, r) == r
\* (mutation) the example of the field's schema used as its default
CourseworkPeopleListExample(doc) ==
    IF Has(doc, "people") THEN PeopleValue(Get(doc, "people", <<>>))
    ELSE <<[uni |-> "abc1234", first_name |-> Some("Ada"), last_name |-> Some("Lovelace"),
            email |-> <<"a", "@", "x">>, addresses |-> <<>>]>>
CourseworkPeopleList(doc) ==
    IF Has(doc, "people") THEN PeopleValue(Get(doc, "people", <<>>)) ELSE <<>>
\* default_factory=uuid4
CourseworkId(doc, n) == IF Has(doc, "id") THEN ParseUUID(Val(doc, "id")) ELSE uuid4(n)
CourseworkCalls(doc) == IF Has(doc, "id") THEN 0 ELSE 1
CourseworkBaseValue(doc, n, r) ==
    [id |-> CourseworkId(doc, n),
     title |-> Get(doc, "title", Undefined),
     semester |-> Get(doc, "semester", Undefined),
     professor |-> PersonBaseValue(Get(doc, "professor", <<>>)),
     people |-> CourseworkPeopleRef(doc, r)]
\* The result of validate-and-construct: the errors, the instance (<<>> when
\* there are errors), the list objects it allocated and the uuid4() calls made
Result(errs, value, cells, calls) ==
    [errs |-> errs, inst |-> IF errs = {} THEN <<value>> ELSE <<>>,
     cells |-> IF errs = {} THEN cells ELSE <<>>, calls |-> calls]
CourseworkBase(doc, n, c, r) ==
    Result(CourseworkBaseErrs(doc), CourseworkBaseValue(doc, n, r),
           <<[ref |-> CourseworkPeopleRef(doc, r), list |-> CourseworkPeopleList(doc)]>>,
           CourseworkCalls(doc))

\* class CourseworkCreate(CourseworkBase): declares no field of its own
CourseworkCreate(doc, n, c, r) == CourseworkBase(doc, n, c, r)

\* class CourseworkRead(CourseworkBase): id again, and updated_at
CourseworkReadErrs(doc) ==
    CourseworkBaseErrs(doc)
    \cup FieldErrs(doc, "updated_at", FALSE, FALSE,
                   IF NonNull(doc, "updated_at") THEN Scalar(IsDatetimeStr(Val(doc, "updated_at"))) ELSE {})
CourseworkReadValue(doc, n, c, r) ==
    [id |-> CourseworkId(doc, n),
     title |-> Get(doc, "title", Undefined),
     semester |-> Get(doc, "semester", Undefined),
     professor |-> PersonBaseValue(Get(doc, "professor", <<>>)),
     people |-> CourseworkPeopleRef(doc, r),
     updated_at |-> IF Has(doc, "updated_at") THEN ParseDatetime(Val(doc, "updated_at")) ELSE utcnow(c)]
CourseworkRead(doc, n, c, r) ==
    Result(CourseworkReadErrs(doc), CourseworkReadValue(doc, n, c, r),
           <<[ref |-> CourseworkPeopleRef(doc, r), list |-> CourseworkPeopleList(doc)]>>,
           CourseworkCalls(doc))

\* class CourseworkUpdate(BaseModel): four Optional fields whose default is
\* None, and created_at: datetime with default_factory=datetime.utcnow
CourseworkUpdateErrs(doc) ==
    FieldErrs(doc, "title", FALSE, TRUE, {})
    \cup FieldErrs(doc, "semester", FALSE, TRUE, {})
    \cup FieldErrs(doc, "professor", FALSE, TRUE,
                   IF NonNull(doc, "professor") THEN PersonBaseErrs(Val(doc, "professor")) ELSE {})
    \cup FieldErrs(doc, "people", FALSE, TRUE,
                   IF NonNull(doc, "people") THEN PeopleErrs(Val(doc, "people")) ELSE {})
    \cup FieldErrs(doc, "created_at", FALSE, FALSE,
                   IF NonNull(doc, "created_at") THEN Scalar(IsDatetimeStr(Val(doc, "created_at"))) ELSE {})
CourseworkUpdateValue(doc, c, r) ==
    [title |-> OptValue(doc, "title", Val(doc, "title")),
     semester |-> OptValue(doc, "semester", Val(doc, "semester")),
     professor |-> OptValue(doc, "professor", PersonBaseValue(Val(doc, "professor"))),
     people |-> OptValue(doc, "people", r),
     created_at |-> IF Has(doc, "created_at") THEN ParseDatetime(Val(doc, "created_at")) ELSE utcnow(c)]
CourseworkUpdate(doc, n, c, r) ==
    Result(CourseworkUpdateErrs(doc), CourseworkUpdateValue(doc, c, r),
           IF NonNull(doc, "people")
           THEN <<[ref |-> r, list |-> PeopleValue(Val(doc, "people"))]>> ELSE <<>>,
           0)

\* class AssignmentBase(BaseModel)
DateErrs(doc, f, required, optional) ==
    FieldErrs(doc, f, required, optional,
              IF NonNull(doc, f) THEN Scalar(IsDateStr(Val(doc, f))) ELSE {})
DatetimeErrs(doc, f, required, optional) ==
    FieldErrs(doc, f, required, optional,
              IF NonNull(doc, f) THEN Scalar(IsDatetimeStr(Val(doc, f))) ELSE {})
UUIDErrs(doc, f, required, optional) ==
    FieldErrs(doc, f, required, optional,
              IF NonNull(doc, f) THEN Scalar(IsUUIDStr(Val(doc, f))) ELSE {})
\* (mutation) title declared with a default instead of Field(...)
AssignmentBaseErrsOptionalTitle(doc) ==
    UUIDErrs(doc, "id", FALSE, FALSE)
    \cup FieldErrs(doc, "title", FALSE, FALSE, {})
    \cup FieldErrs(doc, "description", TRUE, FALSE, {})
    \cup DateErrs(doc, "due_date", TRUE, FALSE)
    \cup FieldErrs(doc, "coursework", TRUE, FALSE,
                   IF NonNull(doc, "coursework") THEN CourseworkBaseErrs(Val(doc, "coursework")) ELSE {})
    \cup DatetimeErrs(doc, "created_at", FALSE, FALSE)
AssignmentBaseErrs(doc) ==
    UUIDErrs(doc, "id", FALSE, FALSE)
    \cup FieldErrs(doc, "title", TRUE, FALSE, {})
    \cup FieldErrs(doc, "description", TRUE, FALSE, {})
    \cup DateErrs(doc, "due_date", TRUE, FALSE)
    \cup FieldErrs(doc, "coursework", TRUE, FALSE,
                   IF NonNull(doc, "coursework") THEN CourseworkBaseErrs(Val(doc, "coursework")) ELSE {})
    \cup DatetimeErrs(doc, "created_at", FALSE, FALSE)
\* default_factory=uuid4
AssignmentId(doc, n) == IF Has(doc, "id") THEN ParseUUID(Val(doc, "id")) ELSE uuid4(n)
AssignmentIdCalls(doc) == IF Has(doc, "id") THEN 0 ELSE 1
\* default_factory=datetime.utcnow
AssignmentCreatedAt(doc, c) ==
    IF Has(doc, "created_at") THEN ParseDatetime(Val(doc, "created_at")) ELSE utcnow(c)
AssignmentCalls(doc) ==
    AssignmentIdCalls(doc)
    + (IF NonNull(doc, "coursework") THEN CourseworkCalls(Val(doc, "coursework")) ELSE 0)
AssignmentBaseValue(doc, n, c, r) ==
    [id |-> AssignmentId(doc, n),
     title |-> Get(doc, "title", Undefined),
     description |-> Get(doc, "description", Undefined),
     due_date |-> ParseDate(Val(doc, "due_date")),
     coursework |-> CourseworkBaseValue(Get(doc, "coursework", <<>>), n + AssignmentIdCalls(doc), r),
     created_at |-> AssignmentCreatedAt(doc, c)]
AssignmentCells(doc, r) ==
    <<[ref |-> CourseworkPeopleRef(Get(doc, "coursework", <<>>), r),
       list |-> CourseworkPeopleList(Get(doc, "coursework", <<>>))]>>
AssignmentBase(doc, n, c, r) ==
    Result(AssignmentBaseErrs(doc), AssignmentBaseValue(doc, n, c, r),
           AssignmentCells(doc, r), AssignmentCalls(doc))

\* class AssignmentCreate(AssignmentBase): declares no field of its own
AssignmentCreate(doc, n, c, r) == AssignmentBase(doc, n, c, r)

\* class AssignmentRead(AssignmentBase): id and created_at again, and updated_at
AssignmentReadErrs(doc) ==
    AssignmentBaseErrs(doc) \cup DatetimeErrs(doc, "updated_at", FALSE, FALSE)
\* (mutation) AssignmentRead without its updated_at declaration
AssignmentReadValueNoUpdatedAt(doc, n, c, r) == AssignmentBaseValue(doc, n, c, r)
AssignmentReadValue(doc, n, c, r) ==
    [id |-> AssignmentId(doc, n),
     title |-> Get(doc, "title", Undefined),
     description |-> Get(doc, "description", Undefined),
     due_date |-> ParseDate(Val(doc, "due_date")),
     coursework |-> CourseworkBaseValue(Get(doc, "coursework", <<>>), n + AssignmentIdCalls(doc), r),
     created_at |-> AssignmentCreatedAt(doc, c),
     updated_at |-> IF Has(doc, "updated_at") THEN ParseDatetime(Val(doc, "updated_at")) ELSE utcnow(c)]
AssignmentRead(doc, n, c, r) ==
    Result(AssignmentReadErrs(doc), AssignmentReadValue(doc, n, c, r),
           AssignmentCells(doc, r), AssignmentCalls(doc))

\* class AssignmentUpdate(BaseModel): every annotation is Optional; the default
\* of id is default_factory=uuid4, the default of the other fields is None
\* (mutation) title: str = Field(...) left in the patch class
AssignmentUpdateErrsRequiredTitle(doc) ==
    UUIDErrs(doc, "id", FALSE, TRUE)
    \cup FieldErrs(doc, "title", TRUE, FALSE, {})
    \cup FieldErrs(doc, "description", FALSE, TRUE, {})
    \cup DateErrs(doc, "due_date", FALSE, TRUE)
    \cup FieldErrs(doc, "coursework", FALSE, TRUE,
                   IF NonNull(doc, "coursework") THEN CourseworkBaseErrs(Val(doc, "coursework")) ELSE {})
    \cup DatetimeErrs(doc, "created_at", FALSE, TRUE)
AssignmentUpdateErrs(doc) ==
    UUIDErrs(doc, "id", FALSE, TRUE)
    \cup FieldErrs(doc, "title", FALSE, TRUE, {})
    \cup FieldErrs(doc, "description", FALSE, TRUE, {})
    \cup DateErrs(doc, "due_date", FALSE, TRUE)
    \cup FieldErrs(doc, "coursework", FALSE, TRUE,
                   IF NonNull(doc, "coursework") THEN CourseworkBaseErrs(Val(doc, "coursework")) ELSE {})
    \cup DatetimeErrs(doc, "created_at", FALSE, TRUE)
AssignmentUpdateId(doc, n) ==
    IF ~Has(doc, "id") THEN Some(uuid4(n))
    ELSE IF doc["id"] = None THEN None ELSE Some(ParseUUID(Val(doc, "id")))
AssignmentUpdateValue(doc, n, r) ==
    [id |-> AssignmentUpdateId(doc, n),
     title |-> OptValue(doc, "title", Val(doc, "title")),
     description |-> OptValue(doc, "description", Val(doc, "description")),
     due_date |-> OptValue(doc, "due_date", ParseDate(Val(doc, "due_date"))),
     coursework |-> OptValue(doc, "coursework",
                             CourseworkBaseValue(Get(doc, "coursework", <<>>), n + AssignmentIdCalls(doc), r)),
     created_at |-> OptValue(doc, "created_at", ParseDatetime(Val(doc, "created_at")))]
AssignmentUpdate(doc, n, c, r) ==
    Result(AssignmentUpdateErrs(doc), AssignmentUpdateValue(doc, n, r),
           IF NonNull(doc, "coursework") THEN AssignmentCells(doc, r) ELSE <<>>,
           AssignmentCalls(doc))

\* validate-and-construct of the class named variant
Variants ==
    {"AssignmentBase", "AssignmentCreate", "AssignmentUpdate", "AssignmentRead",
     "CourseworkBase", "CourseworkCreate", "CourseworkUpdate", "CourseworkRead"}
Construct(variant, doc, n, c, r) ==
    CASE variant = "AssignmentBase" -> AssignmentBase(doc, n, c, r)
      [] variant = "AssignmentCreate" -> AssignmentCreate(doc, n, c, r)
      [] variant = "AssignmentUpdate" -> AssignmentUpdate(doc, n, c, r)
      [] variant = "AssignmentRead" -> AssignmentRead(doc, n, c, r)
      [] variant = "CourseworkBase" -> CourseworkBase(doc, n, c, r)
      [] variant = "CourseworkCreate" -> CourseworkCreate(doc, n, c, r)
      [] variant = "CourseworkUpdate" -> CourseworkUpdate(doc, n, c, r)
      [] variant = "CourseworkRead" -> CourseworkRead(doc, n, c, r)

\* ----------------------------------------------------------- serialisation
\* model_dump(mode="json") / model_dump_json(): every declared field is
\* emitted, a UUID as its string, a date as YYYY-MM-DD, a datetime in ISO
\* format, None as null, a list as the list of its serialised entries
OptJson(o, v) == IF o = None THEN None ELSE Some(v)
DumpPerson(p) ==
    [uni |-> Some(p.uni), first_name |-> p.first_name, last_name |-> p.last_name,
     email |-> Some(p.email), addresses |-> Some(<<>>)]
DumpPeople(l) == [i \in 1..Len(l) |-> DumpPerson(l[i])]
DumpCourseworkBase(cw, h) ==
    [id |-> Some(UUIDStr(cw.id)), title |-> Some(cw.title), semester |-> Some(cw.semester),
     professor |-> Some(DumpPerson(cw.professor)),
     people |-> Some(DumpPeople(h[cw.people]))]
DumpCourseworkRead(cw, h) ==
    [id |-> Some(UUIDStr(cw.id)), title |-> Some(cw.title), semester |-> Some(cw.semester),
     professor |-> Some(DumpPerson(cw.professor)),
     people |-> Some(DumpPeople(h[cw.people])),
     updated_at |-> Some(DatetimeStr(cw.updated_at))]
DumpCourseworkUpdate(u, h) ==
    [title |-> u.title, semester |-> u.semester,
     professor |-> OptJson(u.professor, DumpPerson(u.professor[1])),
     people |-> OptJson(u.people, DumpPeople(h[u.people[1]])),
     created_at |-> Some(DatetimeStr(u.created_at))]
DumpAssignmentBase(a, h) ==
    [id |-> Some(UUIDStr(a.id)), title |-> Some(a.title), description |-> Some(a.description),
     due_date |-> Some(DateStr(a.due_date)),
     coursework |-> Some(DumpCourseworkBase(a.coursework, h)),
     created_at |-> Some(DatetimeStr(a.created_at))]
DumpAssignmentRead(a, h) ==
    [id |-> Some(UUIDStr(a.id)), title |-> Some(a.title), description |-> Some(a.description),
     due_date |-> Some(DateStr(a.due_date)),
     coursework |-> Some(DumpCourseworkBase(a.coursework, h)),
     created_at |-> Some(DatetimeStr(a.created_at)),
     updated_at |-> Some(DatetimeStr(a.updated_at))]
DumpAssignmentUpdate(u, h) ==
    [id |-> OptJson(u.id, UUIDStr(u.id[1])), title |-> u.title, description |-> u.description,
     due_date |-> OptJson(u.due_date, DateStr(u.due_date[1])),
     coursework |-> OptJson(u.coursework, DumpCourseworkBase(u.coursework[1], h)),
     created_at |-> OptJson(u.created_at, DatetimeStr(u.created_at[1]))]
Dump(variant, inst, h) ==
    CASE variant \in {"AssignmentBase", "AssignmentCreate"} -> DumpAssignmentBase(inst, h)
      [] variant = "AssignmentUpdate" -> DumpAssignmentUpdate(inst, h)
      [] variant = "AssignmentRead" -> DumpAssignmentRead(inst, h)
      [] variant \in {"CourseworkBase", "CourseworkCreate"} -> DumpCourseworkBase(inst, h)
      [] variant = "CourseworkUpdate" -> DumpCourseworkUpdate(inst, h)
      [] variant = "CourseworkRead" -> DumpCourseworkRead(inst, h)

\* ------------------------------------------------------------------ inputs
\* Documents a caller can send. Absent marks a key the caller leaves out and
\* is removed by Strip before the document reaches the program.
Absent == <<"-", "-">>
Strip(d) == [k \in {k \in DOMAIN d : d[k] # Absent} |-> d[k]]
SeqsUpTo(S, n) == UNION {[1..k -> S] : k \in 0..n}

ExampleId == <<"5", "5">>
GoodDate == <<"2", "0", "2", "5", "-", "1", "2", "-", "3", "1">>
BadDate == <<"2", "0", "2", "5", "-", "0", "2", "-", "3", "0">>
ZuluStamp == <<"2", "0", "2", "5", "-", "0", "1", "-", "1", "5", "T",
               "1", "0", ":", "2", "0", ":", "3", "0", "Z">>
NaiveStamp == <<"2", "0", "2", "5", "-", "0", "1", "-", "1", "6", "T",
                "1", "2", ":", "0", "0", ":", "0", "0">>
BadStamp == <<"2", "0", "2", "5", "-", "0", "1", "-", "1", "5", "T",
              "2", "5", ":", "2", "0", ":", "3", "0", "Z">>

Don == [uni |-> Some("df123"), first_name |-> Some("Donald"),
        last_name |-> Some("Ferguson"), email |-> Some(<<"d", "@", "f">>)]
Ada == [uni |-> Some("abc1234"), first_name |-> Some("Ada"),
        last_name |-> Some("Lovelace"), email |-> Some(<<"a", "@", "x">>)]
NoUni == [first_name |-> Some("Ada"), last_name |-> Some("Lovelace"),
          email |-> Some(<<"a", "@", "x">>)]
NoEmail == [uni |-> Some("df123"), first_name |-> Some("Donald"),
            last_name |-> Some("Ferguson")]
BadEmail == [uni |-> Some("df123"), first_name |-> Some("Donald"),
             last_name |-> Some("Ferguson"), email |-> Some(<<"d", "f">>)]

\* coursework documents: every key present or absent, a professor and people
\* entries drawn from profs and members
CourseworkDocs(profs, members) ==
    {Strip(d) : d \in [id : {Absent, Some(ExampleId)},
                       title : {Absent, Some("Cloud Computing")},
                       semester : {Absent, Some("Fall 2025")},
                       professor : {Absent} \cup {Some(p) : p \in profs},
                       people : {Absent} \cup {Some(l) : l \in SeqsUpTo(members, MaxPeople)}]}
AssignmentDocs(cws) ==
    {Strip(d) : d \in [id : {Absent, Some(ExampleId)},
                       title : {Absent, Some("HW1")},
                       description : {Absent, Some("...")},
                       due_date : {Absent, Some(GoodDate), Some(BadDate)},
                       coursework : {Absent} \cup {Some(c) : c \in cws},
                       created_at : {Absent, Some(ZuluStamp), Some(NaiveStamp)}]}
\* three coursework documents: the least valid one, a full one, one whose
\* professor has a malformed e-mail
MinimalCoursework ==
    [title |-> Some("Cloud Computing"), semester |-> Some("Fall 2025"), professor |-> Some(Don)]
FullCoursework ==
    [id |-> Some(ExampleId), title |-> Some("Cloud Computing"), semester |-> Some("Fall 2025"),
     professor |-> Some(Don), people |-> Some(<<Ada>>)]
BadCoursework ==
    [title |-> Some("Cloud Computing"), semester |-> Some("Fall 2025"),
     professor |-> Some(BadEmail)]
\* assignment documents that vary the embedded coursework only
AssignmentAround(cws) ==
    {[title |-> Some("HW1"), description |-> Some("..."), due_date |-> Some(GoodDate),
      coursework |-> Some(c)] @@ top :
        c \in cws,
        top \in {<<>>, [id |-> Some(ExampleId), created_at |-> Some(ZuluStamp)]}}
    \cup {[id |-> Some(ExampleId), description |-> Some("..."), coursework |-> Some(c)] : c \in cws}
\* patch documents: a key is absent, null, or carries a value
CourseworkPatches ==
    {Strip(d) : d \in [title : {Absent, None, Some("Advanced Cloud Computing")},
                       semester : {Absent, Some("Spring 2026")},
                       professor : {Absent, Some(Ada), Some(BadEmail)},
                       people : {Absent, None}
                                \cup {Some(l) : l \in SeqsUpTo({Ada, NoUni}, MaxPeople)},
                       created_at : {Absent, Some(ZuluStamp), Some(BadStamp)}]}
AssignmentPatches ==
    {Strip(d) : d \in [id : {Absent, None, Some(ExampleId)},
                       title : {Absent, None, Some("HW2")},
                       description : {Absent, Some("again")},
                       due_date : {Absent, Some(GoodDate), Some(BadDate)},
                       coursework : {Absent, Some(MinimalCoursework), Some(BadCoursework)},
                       created_at : {Absent, Some(ZuluStamp), Some(BadStamp)}]}
\* the documents each class is constructed from
Inputs(variant) ==
    CASE variant = "AssignmentCreate" ->
            AssignmentDocs({MinimalCoursework, FullCoursework, BadCoursework})
            \cup AssignmentAround(CourseworkDocs({Don, BadEmail}, {Ada, NoUni}))
      [] variant = "AssignmentBase" -> AssignmentDocs({MinimalCoursework})
      [] variant = "AssignmentRead" ->
            {d @@ u : d \in AssignmentDocs({FullCoursework}),
                      u \in {<<>>, [updated_at |-> Some(ZuluStamp)]}}
      [] variant = "AssignmentUpdate" -> AssignmentPatches
      [] variant = "CourseworkCreate" ->
            CourseworkDocs({Don, NoEmail, BadEmail}, {Ada, Don, NoUni})
      [] variant = "CourseworkBase" -> CourseworkDocs({Don}, {NoUni})
      [] variant = "CourseworkRead" ->
            {d @@ u : d \in CourseworkDocs({Don}, {Ada}),
                      u \in {<<>>, [updated_at |-> Some(NaiveStamp)]}}
      [] variant = "CourseworkUpdate" -> CourseworkPatches

\* ------------------------------------------------------------------- state
VARIABLES
    calls,    \* number of uuid4() calls made so far
    clock,    \* reading of the UTC wall clock
    heap,     \* the live list objects: address -> the list's entries
    last,     \* the request in progress: input, outcome, serialised form
    objs,     \* the instances a caller holds on to
    store     \* the stored records of the persistence collaborator
vars == <<calls, clock, heap, last, objs, store>>

EmptyHeap == [r \in {} |-> <<>>]
Alloc(h) == Min({r \in 1..(Cardinality(DOMAIN h) + 1) : r \notin DOMAIN h})
\* the list objects of cells are added to the heap; an object that is already
\* there keeps its entries
Allocate(h, cells) ==
    [r \in DOMAIN h \cup {cells[i].ref : i \in 1..Len(cells)} |->
        IF r \in DOMAIN h THEN h[r]
        ELSE cells[CHOOSE i \in 1..Len(cells) : cells[i].ref = r].list]
Idle == [phase |-> "idle"]

\* the list object an instance's people refers to (none for a patch without one)
PeopleRefs(variant, inst) ==
    CASE variant \in {"AssignmentBase", "AssignmentCreate", "AssignmentRead"} ->
            {inst.coursework.people}
      [] variant = "AssignmentUpdate" ->
            IF inst.coursework = None THEN {} ELSE {inst.coursework[1].people}
      [] variant \in {"CourseworkBase", "CourseworkCreate", "CourseworkRead"} -> {inst.people}
      [] variant = "CourseworkUpdate" -> IF inst.people = None THEN {} ELSE {inst.people[1]}
Held == UNION {PeopleRefs(objs[i].variant, objs[i].inst) : i \in 1..Len(objs)}
InFlight == {"validated", "rejected", "serialized", "reparsed", "posted", "patched"}

Init ==
    /\ calls = 0
    /\ clock = 0
    /\ heap = EmptyHeap
    /\ last = Idle
    /\ objs = <<>>
    /\ store = <<>>

\* time passes between two requests
Tick ==
    /\ last.phase \notin InFlight
    /\ clock < MaxClock
    /\ clock' = clock + 1
    /\ UNCHANGED <<calls, heap, last, objs, store>>

\* a caller constructs an instance of a class from a document (model_validate)
Validate(variant, doc) ==
    /\ last.phase = "idle"
    /\ LET res == Construct(variant, doc, calls, clock, Alloc(heap)) IN
        /\ calls + res.calls <= MaxUuid
        /\ calls' = calls + res.calls
        /\ heap' = Allocate(heap, res.cells)
        /\ last' = [phase |-> IF res.errs = {} THEN "validated" ELSE "rejected",
                    variant |-> variant, doc |-> doc, errs |-> res.errs,
                    inst |-> res.inst, wire |-> <<>>, back |-> <<>>]
    /\ UNCHANGED <<clock, objs, store>>

\* the instance is serialised to its JSON form (model_dump, mode json)
Serialize ==
    /\ last.phase = "validated"
    /\ last' = [last EXCEPT !.phase = "serialized",
                            !.wire = <<Dump(last.variant, last.inst[1], heap)>>]
    /\ UNCHANGED <<calls, clock, heap, objs, store>>

\* the serialised form is parsed again as the same class
Reparse ==
    /\ last.phase = "serialized"
    /\ LET res == Construct(last.variant, last.wire[1], calls, clock, Alloc(heap)) IN
        /\ calls + res.calls <= MaxUuid
        /\ calls' = calls + res.calls
        /\ heap' = Allocate(heap, res.cells)
        /\ last' = [last EXCEPT !.phase = "reparsed", !.back = res.inst]
    /\ UNCHANGED <<clock, objs, store>>

\* the request ends; its instances are dropped and their lists freed
Discard ==
    /\ last.phase \in InFlight
    /\ last' = Idle
    /\ heap' = [r \in DOMAIN heap \cap Held |-> heap[r]]
    /\ UNCHANGED <<calls, clock, objs, store>>

Next ==
    \/ \E variant \in Variants : \E doc \in Inputs(variant) : Validate(variant, doc)
    \/ Serialize
    \/ Reparse
    \/ Discard
Spec == Init /\ [][Next]_vars

\* ----------------------------------------------- instances held by a caller
\* the value of an instance: its people list read through the heap
ViewCoursework(cw, h) == [cw EXCEPT !.people = h[cw.people]]
People(o, h) == h[CHOOSE r \in PeopleRefs(o.variant, o.inst) : TRUE]

OtherCoursework ==
    [title |-> Some("Databases"), semester |-> Some("Spring 2026"), professor |-> Some(Ada),
     people |-> Some(<<Don>>)]
MinimalAssignment ==
    [title |-> Some("HW1"), description |-> Some("..."), due_date |-> Some(GoodDate),
     coursework |-> Some(MinimalCoursework)]
FullAssignment ==
    [id |-> Some(ExampleId), title |-> Some("HW1"), description |-> Some("..."),
     due_date |-> Some(GoodDate), coursework |-> Some(FullCoursework),
     created_at |-> Some(ZuluStamp)]
HeldInputs(variant) ==
    CASE variant = "AssignmentCreate" -> {MinimalAssignment}
      [] variant = "CourseworkCreate" -> {MinimalCoursework, FullCoursework}
      [] variant = "CourseworkRead" -> {MinimalCoursework}
HeldVariants == {"AssignmentCreate", "CourseworkCreate", "CourseworkRead"}

\* a caller constructs an instance and keeps it
Hold(variant, doc) ==
    /\ Len(objs) < MaxObjs
    /\ LET res == Construct(variant, doc, calls, clock, Alloc(heap)) IN
        /\ res.errs = {}
        /\ calls + res.calls <= MaxUuid
        /\ calls' = calls + res.calls
        /\ heap' = Allocate(heap, res.cells)
        /\ objs' = Append(objs, [variant |-> variant, doc |-> doc, inst |-> res.inst[1]])
    /\ UNCHANGED <<clock, last, store>>

\* a caller adds an entry to the people list of an instance it holds
AppendPerson(i, p) ==
    /\ i \in 1..Len(objs)
    /\ LET r == CHOOSE r \in PeopleRefs(objs[i].variant, objs[i].inst) : TRUE IN
        /\ Len(heap[r]) < MaxPeople
        /\ heap' = [heap EXCEPT ![r] = Append(@, PersonBaseValue(p))]
    /\ UNCHANGED <<calls, clock, last, objs, store>>

NextHeld ==
    \/ Tick
    \/ \E variant \in HeldVariants : \E doc \in HeldInputs(variant) : Hold(variant, doc)
    \/ \E i \in 1..MaxObjs : AppendPerson(i, Ada)
SpecHeld == Init /\ [][NextHeld]_vars

\* -------------------------------------------------- the stored record
\* The persistence collaborator keeps one record, in the shape of the Read
\* class of its entity, with the people list by value.
StoredAssignment(a, h, c) ==
    [id |-> a.id, title |-> a.title, description |-> a.description, due_date |-> a.due_date,
     coursework |-> ViewCoursework(a.coursework, h), created_at |-> a.created_at,
     updated_at |-> utcnow(c)]
StoredCoursework(cw, h, c) ==
    [id |-> cw.id, title |-> cw.title, semester |-> cw.semester, professor |-> cw.professor,
     people |-> h[cw.people], updated_at |-> utcnow(c)]
\* a field present and non-null in the patch replaces the stored field
\* wholesale; every other stored field is kept
Patched(u, f, stored, v) == IF u[f] # None THEN v ELSE stored[f]
ApplyAssignmentUpdate(stored, u, h) ==
    [id |-> Patched(u, "id", stored, u.id[1]),
     title |-> Patched(u, "title", stored, u.title[1]),
     description |-> Patched(u, "description", stored, u.description[1]),
     due_date |-> Patched(u, "due_date", stored, u.due_date[1]),
     coursework |-> Patched(u, "coursework", stored, ViewCoursework(u.coursework[1], h)),
     created_at |-> Patched(u, "created_at", stored, u.created_at[1]),
     updated_at |-> stored.updated_at]
\* (mutation) the patch's people are appended to the stored ones
ApplyCourseworkUpdateAppend(stored, u, h) ==
    [id |-> stored.id,
     title |-> Patched(u, "title", stored, u.title[1]),
     semester |-> Patched(u, "semester", stored, u.semester[1]),
     professor |-> Patched(u, "professor", stored, u.professor[1]),
     people |-> Patched(u, "people", stored, stored.people \o h[u.people[1]]),
     updated_at |-> stored.updated_at]
ApplyCourseworkUpdate(stored, u, h) ==
    [id |-> stored.id,
     title |-> Patched(u, "title", stored, u.title[1]),
     semester |-> Patched(u, "semester", stored, u.semester[1]),
     professor |-> Patched(u, "professor", stored, u.professor[1]),
     people |-> Patched(u, "people", stored, h[u.people[1]]),
     updated_at |-> stored.updated_at]

OtherDate == <<"2", "0", "2", "6", "-", "0", "2", "-", "2", "8">>
StoredInputs(kind) ==
    IF kind = "Assignment" THEN {MinimalAssignment, FullAssignment}
    ELSE {MinimalCoursework, OtherCoursework}
PatchInputs(kind) ==
    IF kind = "Assignment"
    THEN {Strip(d) : d \in [id : {Absent, None, Some(ExampleId)},
                            title : {Absent, Some("HW2")},
                            due_date : {Absent, Some(OtherDate), Some(BadDate)},
                            coursework : {Absent, Some(OtherCoursework)},
                            created_at : {Absent, Some(NaiveStamp)}]}
    ELSE {Strip(d) : d \in [title : {Absent, Some("Advanced Cloud Computing")},
                            professor : {Absent, Some(Ada)},
                            people : {Absent, None, Some(<<NoUni>>)}
                                     \cup {Some(l) : l \in SeqsUpTo({Ada, Don}, MaxPeople)},
                            created_at : {Absent, Some(ZuluStamp)}]}
Kinds == {"Assignment", "Coursework"}

\* a create request: the document is validated as the Create class and stored
Post(kind, doc) ==
    /\ last.phase = "idle"
    /\ store = <<>>
    /\ LET res == Construct(kind \o "Create", doc, calls, clock, Alloc(heap))
           h == Allocate(heap, res.cells) IN
        /\ calls + res.calls <= MaxUuid
        /\ calls' = calls + res.calls
        /\ store' = IF res.errs # {} THEN store
                    ELSE IF kind = "Assignment"
                         THEN <<[kind |-> kind, rec |-> StoredAssignment(res.inst[1], h, clock)]>>
                         ELSE <<[kind |-> kind, rec |-> StoredCoursework(res.inst[1], h, clock)]>>
        /\ last' = [phase |-> "posted", variant |-> kind \o "Create", doc |-> doc,
                    errs |-> res.errs]
    /\ UNCHANGED <<clock, heap, objs>>

\* an update request: the document is validated as the Update class and the
\* fields of the instance that are not None replace the stored ones
Patch(kind, doc) ==
    /\ last.phase = "idle"
    /\ store # <<>>
    /\ store[1].kind = kind
    /\ LET res == Construct(kind \o "Update", doc, calls, clock, Alloc(heap))
           h == Allocate(heap, res.cells) IN
        /\ calls + res.calls <= MaxUuid
        /\ calls' = calls + res.calls
        /\ store' = IF res.errs # {} THEN store
                    ELSE IF kind = "Assignment"
                         THEN <<[kind |-> kind,
                                 rec |-> ApplyAssignmentUpdate(store[1].rec, res.inst[1], h)]>>
                         ELSE <<[kind |-> kind,
                                 rec |-> ApplyCourseworkUpdate(store[1].rec, res.inst[1], h)]>>
        /\ last' = [phase |-> "patched", variant |-> kind \o "Update", doc |-> doc,
                    errs |-> res.errs, before |-> store[1].rec]
    /\ UNCHANGED <<clock, heap, objs>>

NextStored ==
    \/ \E kind \in Kinds : \E doc \in StoredInputs(kind) : Post(kind, doc)
    \/ \E kind \in Kinds : \E doc \in PatchInputs(kind) : Patch(kind, doc)
    \/ Discard
SpecStored == Init /\ [][NextStored]_vars

\* ------------------------------------------------------------- properties
Decided == last.phase \in {"validated", "rejected", "serialized", "reparsed"}
Produced == last.phase \in {"validated", "serialized", "reparsed"}
\* a person document with both required keys and a well-formed address
IsGoodPerson(p) ==
    /\ {"uni", "email"} \subseteq DOMAIN p
    /\ p.email \in {Some(<<"d", "@", "f">>), Some(<<"a", "@", "x">>)}
\* a coursework document that lacks a required key, or whose professor or one
\* of whose people is not a good person document
BadCourseworkDoc(cw) ==
    \/ ~({"title", "semester", "professor"} \subseteq DOMAIN cw)
    \/ ~IsGoodPerson(Val(cw, "professor"))
    \/ /\ Has(cw, "people")
       /\ \E i \in 1..Len(Val(cw, "people")) : ~IsGoodPerson(Val(cw, "people")[i])

\* C1: constructing AssignmentCreate from a document that omits title,
\* description, due_date or coursework, or CourseworkCreate from one that
\* omits title, semester or professor, fails for every such document: each
\* omitted field is reported and no instance is produced.
RequiredByClaim(variant) ==
    IF variant = "AssignmentCreate" THEN {"title", "description", "due_date", "coursework"}
    ELSE {"title", "semester", "professor"}
C1_RequiredFieldsEnforced ==
    (/\ Decided
     /\ last.variant \in {"AssignmentCreate", "CourseworkCreate"}
     /\ ~(RequiredByClaim(last.variant) \subseteq DOMAIN last.doc))
    => /\ last.phase = "rejected"
       /\ last.inst = <<>>
       /\ \A f \in RequiredByClaim(last.variant) \ DOMAIN last.doc : <<f>> \in last.errs
C1_Witness ==
    /\ last.phase = "rejected"
    /\ last.variant = "AssignmentCreate"
    /\ DOMAIN last.doc = {"title", "description", "coursework"}
    /\ last.errs = {<<"due_date">>}

\* C2: an AssignmentCreate document with title, description, due_date and a
\* coursework with title, semester and professor, and without id, created_at
\* and coursework.people, validates; the instance has an id, the current time
\* as created_at, a coursework id, and an empty coursework.people.
GoodMinimal(doc) ==
    /\ DOMAIN doc = {"title", "description", "due_date", "coursework"}
    /\ doc.due_date = Some(GoodDate)
    /\ doc.coursework # None
    /\ LET cw == Val(doc, "coursework") IN
        /\ {"title", "semester", "professor"} \subseteq DOMAIN cw
        /\ DOMAIN cw \subseteq {"id", "title", "semester", "professor"}
        /\ IsGoodPerson(Val(cw, "professor"))
C2_DefaultsFilled ==
    (Decided /\ last.variant = "AssignmentCreate" /\ GoodMinimal(last.doc))
    => /\ last.phase # "rejected"
       /\ last.inst # <<>>
       /\ LET a == last.inst[1] IN
           /\ a.id \in 0..255
           /\ a.created_at = utcnow(clock)
           /\ a.coursework.id \in 0..255
           /\ heap[a.coursework.people] = <<>>
C2_Witness ==
    /\ last.phase = "validated"
    /\ last.variant = "AssignmentCreate"
    /\ GoodMinimal(last.doc)
    /\ ~Has(Val(last.doc, "coursework"), "id")
    /\ last.inst[1].id # last.inst[1].coursework.id

\* C3 as stated: every Read instance carries created_at and updated_at, every
\* Base and Create instance carries created_at and no updated_at.
C3_AsStated ==
    Produced =>
        LET F == DOMAIN last.inst[1] IN
        /\ last.variant \in {"AssignmentRead", "CourseworkRead"}
           => {"created_at", "updated_at"} \subseteq F
        /\ last.variant \in {"AssignmentBase", "AssignmentCreate", "CourseworkBase", "CourseworkCreate"}
           => ("created_at" \in F /\ "updated_at" \notin F)
\* C3 (amended): AssignmentRead carries created_at and updated_at;
\* AssignmentBase and AssignmentCreate carry created_at and no updated_at;
\* CourseworkRead carries updated_at and no created_at; CourseworkBase and
\* CourseworkCreate carry neither.
C3_TimestampFields ==
    Produced =>
        LET F == DOMAIN last.inst[1] \cap {"created_at", "updated_at"} IN
        /\ last.variant = "AssignmentRead" => F = {"created_at", "updated_at"}
        /\ last.variant \in {"AssignmentBase", "AssignmentCreate"} => F = {"created_at"}
        /\ last.variant = "CourseworkRead" => F = {"updated_at"}
        /\ last.variant \in {"CourseworkBase", "CourseworkCreate"} => F = {}
C3_Witness ==
    /\ last.phase = "validated"
    /\ last.variant = "CourseworkRead"
    /\ ~Has(last.doc, "updated_at")
    /\ last.inst[1].updated_at = utcnow(clock)

\* C4: AssignmentUpdate and CourseworkUpdate require no field: a document that
\* gives valid values to any subset of the declared fields, the empty one
\* included, validates.
GoodPatchValue(variant, f, v) ==
    CASE f = "id" -> v \in {None, Some(ExampleId)}
      [] f = "due_date" -> v \in {None, Some(GoodDate), Some(OtherDate)}
      [] f = "created_at" ->
            IF variant = "AssignmentUpdate" THEN v \in {None, Some(ZuluStamp), Some(NaiveStamp)}
            ELSE v \in {Some(ZuluStamp), Some(NaiveStamp)}
      [] f = "coursework" -> v = None \/ ~BadCourseworkDoc(v[1])
      [] f = "professor" -> v = None \/ IsGoodPerson(v[1])
      [] f = "people" -> v = None \/ \A i \in 1..Len(v[1]) : IsGoodPerson(v[1][i])
      [] OTHER -> TRUE
C4_NoFieldRequired ==
    (/\ Decided
     /\ last.variant \in {"AssignmentUpdate", "CourseworkUpdate"}
     /\ \A f \in DOMAIN last.doc : GoodPatchValue(last.variant, f, last.doc[f]))
    => last.phase # "rejected" /\ last.inst # <<>>
C4_Witness ==
    /\ last.phase = "validated"
    /\ last.variant = "AssignmentUpdate"
    /\ DOMAIN last.doc = {}

\* C5: when the coursework embedded in an AssignmentCreate document is not a
\* valid CourseworkBase (a required key missing, a bad professor, a bad entry
\* at any position of people), the assignment fails and no instance is
\* produced, whatever the rest of the document is.
C5_NestedFailureRejectsAll ==
    (/\ Decided
     /\ last.variant = "AssignmentCreate"
     /\ NonNull(last.doc, "coursework")
     /\ BadCourseworkDoc(Val(last.doc, "coursework")))
    => last.phase = "rejected" /\ last.inst = <<>>
C5_Witness ==
    /\ last.phase = "rejected"
    /\ last.variant = "AssignmentCreate"
    /\ NonNull(last.doc, "coursework")
    /\ Get(Val(last.doc, "coursework"), "people", <<>>) = <<Ada, NoUni>>
    /\ last.errs = {<<"coursework", "people", "1", "uni">>}

\* C6: a CourseworkUpdate whose people is present, applied to a stored
\* coursework, leaves exactly the patch's list as the stored list: the same
\* persons in the same order, whatever the stored list was.
C6_PeopleReplaced ==
    (/\ last.phase = "patched"
     /\ last.variant = "CourseworkUpdate"
     /\ last.errs = {}
     /\ NonNull(last.doc, "people"))
    => LET P == Val(last.doc, "people")
           R == store[1].rec.people IN
       /\ Len(R) = Len(P)
       /\ \A i \in 1..Len(P) : R[i].uni = Val(P[i], "uni") /\ R[i].email = Val(P[i], "email")
C6_Witness ==
    /\ last.phase = "patched"
    /\ last.variant = "CourseworkUpdate"
    /\ last.errs = {}
    /\ NonNull(last.doc, "people")
    /\ Len(last.before.people) >= 1
    /\ Len(Val(last.doc, "people")) >= 1
    /\ last.before.people[1].uni # Val(Val(last.doc, "people")[1], "uni")
    /\ store[1].rec.people # last.before.people

\* C7: after an update whose document names the fields F, applied by replacing
\* every stored field whose value in the validated Update instance is not
\* None, every stored field outside F (the id and created_at among them) is
\* what it was.
C7_OnlyNamedFieldsChange ==
    (last.phase = "patched" /\ last.errs = {})
    => \A f \in DOMAIN last.before \ DOMAIN last.doc : store[1].rec[f] = last.before[f]

\* C8: instances built from documents that omit id have pairwise different
\* ids, and a step that changes the people list of one held instance leaves
\* the people list of every other held instance as it was.
IsAssignment(o) == o.variant \in {"AssignmentCreate", "AssignmentRead"}
GeneratedIds ==
    {s \in (1..Len(objs)) \X {"self", "coursework"} :
        IF s[2] = "self" THEN ~Has(objs[s[1]].doc, "id")
        ELSE IsAssignment(objs[s[1]]) /\ ~Has(Val(objs[s[1]].doc, "coursework"), "id")}
IdAt(s) == IF s[2] = "self" THEN objs[s[1]].inst.id ELSE objs[s[1]].inst.coursework.id
DistinctIds == \A s, t \in GeneratedIds : s # t => IdAt(s) # IdAt(t)
C8_DefaultsPerConstruction ==
    /\ []DistinctIds
    /\ [][\A i, j \in 1..Len(objs) :
            (i # j /\ People(objs[i], heap') # People(objs[i], heap))
            => People(objs[j], heap') = People(objs[j], heap)]_vars
PeopleOmitted(o) ==
    IF IsAssignment(o) THEN ~Has(Val(o.doc, "coursework"), "people") ELSE ~Has(o.doc, "people")
C8_Witness ==
    \E i, j \in 1..Len(objs) :
        /\ i # j
        /\ PeopleOmitted(objs[i]) /\ PeopleOmitted(objs[j])
        /\ ~Has(objs[i].doc, "id") /\ ~Has(objs[j].doc, "id")
        /\ People(objs[i], heap) # <<>>
        /\ People(objs[j], heap) = <<>>

\* C9: a valid AssignmentCreate document, validated, serialised and parsed
\* again as AssignmentCreate, gives an instance equal to the first on title,
\* description, due_date and coursework; both instances have id and created_at.
C9_RoundTrip ==
    (last.phase = "reparsed" /\ last.variant = "AssignmentCreate")
    => /\ last.back # <<>>
       /\ LET a == last.inst[1]
              b == last.back[1] IN
           /\ a.title = b.title
           /\ a.description = b.description
           /\ a.due_date = b.due_date
           /\ ViewCoursework(a.coursework, heap) = ViewCoursework(b.coursework, heap)
           /\ {"id", "created_at"} \subseteq DOMAIN a \cap DOMAIN b
C9_Witness ==
    /\ last.phase = "reparsed"
    /\ last.variant = "AssignmentCreate"
    /\ ~Has(last.doc, "id")
    /\ last.back # <<>>
    /\ last.inst[1].due_date = [year |-> 2025, month |-> 12, day |-> 31]
    /\ Len(heap[last.back[1].coursework.people]) >= 1

\* C10: every created_at and updated_at of a serialised Assignment or
\* Coursework instance, one filled in by the default factory included, is an
\* ISO-8601 string that ends in the UTC designator Z.
C10_TimestampsEndInZ ==
    last.phase \in {"serialized", "reparsed"}
    => \A f \in {"created_at", "updated_at"} \cap DOMAIN last.wire[1] :
          last.wire[1][f] # None
          => Val(last.wire[1], f)[Len(Val(last.wire[1], f))] = "Z"

====
